---- MODULE Spec2Model ----
(***************************************************************************)
(* A model of budget-utils-py: the label parsers (budget/parsers.py), the  *)
(* sheet record builder and the concurrent assembly of the dataset         *)
(* (budget/sheets.py), and the forecast (budget/analysis.py) with its      *)
(* command line entry (budget/scripts/estimate.py).                        *)
(*                                                                         *)
(* Texts are sequences of one-character strings, so that stripping,        *)
(* case folding and matching are computed character by character.          *)
(***************************************************************************)
EXTENDS Integers, Sequences, FiniteSets, TLC

VARIABLES
    now,          \* the value datetime.now() returns
    month_str,    \* parsers.parse_month_datetime: its argument
    label_src,    \* how month_str was composed (recorded at Init, never read by the code)
    parsed_dt,    \* parsers.parse_month_datetime: its result, Pending before the call
    money,        \* parsers.parse_money: its argument
    money_src,    \* how money was composed (recorded at Init, never read by the code)
    parsed_money, \* parsers.parse_money: its result, Pending before the call
    sheet,        \* sheets.get_sheet_dataframe: its argument, a worksheet
    batch_ok,     \* whether sheet.batch_get answered (TRUE) or raised APIError
    built,        \* sheets.get_sheet_dataframe: its outcome, Pending before the call
    worksheets,   \* sheets.get_spreadsheet_dataframe: spreadsheet.worksheets()
    futures,      \* month_futures: per submitted worksheet, the task's state and result
    consumed,     \* the futures as_completed has yielded and the loop has handled
    rows,         \* df: the rows concatenated so far
    main_pc,      \* where get_spreadsheet_dataframe is
    outcome,      \* what get_spreadsheet_dataframe returned or raised
    est_arg,      \* scripts/estimate.py: the MONTH argument, None for a call without dt
    est_dt,       \* analysis.estimate_rent: dt
    est_now,      \* analysis.estimate_rent: the datetime.now() its assertion read
    est_residents,\* analysis.estimate_rent: residents
    est_df,       \* analysis.estimate_rent: df, the rows read from the database
    est_filled,   \* analysis.estimate_rent: df after fillna, Pending before it
    estimate,     \* analysis.estimate_rent: the estimate row, Pending before it is built
    est_pc        \* where the estimate script is

parse_vars == <<month_str, label_src, parsed_dt>>
money_vars == <<money, money_src, parsed_money>>
build_vars == <<sheet, batch_ok, built>>
assemble_vars == <<worksheets, futures, consumed, rows, main_pc, outcome>>
est_vars == <<est_arg, est_dt, est_now, est_residents, est_df, est_filled, estimate, est_pc>>
vars == <<now, parse_vars, money_vars, build_vars, assemble_vars, est_vars>>

----------------------------------------------------------------------------
(* Characters *)

a_month ==
    << <<"j","a","n">>,
       <<"f","e","b">>,
       <<"m","a","r">>,
       <<"a","p","r">>,
       <<"m","a","y">>,
       <<"j","u","n">>,
       <<"j","u","l">>,
       <<"a","u","g">>,
       <<"s","e","p">>,
       <<"o","c","t">>,
       <<"n","o","v">>,
       <<"d","e","c">> >>
f_month ==
    << <<"j","a","n","u","a","r","y">>,
       <<"f","e","b","r","u","a","r","y">>,
       <<"m","a","r","c","h">>,
       <<"a","p","r","i","l">>,
       <<"m","a","y">>,
       <<"j","u","n","e">>,
       <<"j","u","l","y">>,
       <<"a","u","g","u","s","t">>,
       <<"s","e","p","t","e","m","b","e","r">>,
       <<"o","c","t","o","b","e","r">>,
       <<"n","o","v","e","m","b","e","r">>,
       <<"d","e","c","e","m","b","e","r">> >>
ascii_lowercase ==
    <<"a","b","c","d","e","f","g","h","i","j","k","l","m","n","o","p","q","r","s","t","u","v","w","x","y","z">>
ascii_uppercase ==
    <<"A","B","C","D","E","F","G","H","I","J","K","L","M","N","O","P","Q","R","S","T","U","V","W","X","Y","Z">>
digits ==
    <<"0","1","2","3","4","5","6","7","8","9">>

\* The characters the regular expression \s matches (a sample of them).
whitespace ==
    {" ", "\t", "\n"}

\* str.lower() of one character.
lower_char(c) ==
    IF \E i \in 1..Len(ascii_uppercase) : ascii_uppercase[i] = c
    THEN ascii_lowercase[CHOOSE i \in 1..Len(ascii_uppercase) : ascii_uppercase[i] = c]
    ELSE c

upper_char(c) ==
    IF \E i \in 1..Len(ascii_lowercase) : ascii_lowercase[i] = c
    THEN ascii_uppercase[CHOOSE i \in 1..Len(ascii_lowercase) : ascii_lowercase[i] = c]
    ELSE c

\* str.lower()
lower(s) ==
    [i \in 1..Len(s) |-> lower_char(s[i])]

is_digit(c) ==
    \E i \in 1..Len(digits) : digits[i] = c

\* int() of one decimal digit.
digit_value(c) ==
    (CHOOSE i \in 1..Len(digits) : digits[i] = c) - 1

\* int() of a text of decimal digits.
RECURSIVE int_of(_)
int_of(s) ==
    IF Len(s) = 0 THEN 0
    ELSE 10 * int_of(SubSeq(s, 1, Len(s) - 1)) + digit_value(s[Len(s)])

----------------------------------------------------------------------------
(* Values *)

None == [tag |-> "None"]
Pending == [tag |-> "Pending"]

datetime(y, m, d, hh, mm) ==
    [tag |-> "datetime", year |-> y, month |-> m, day |-> d, hour |-> hh, minute |-> mm]

\* The outcome of a call that raises.
Raised(exc) == [tag |-> "raise", exc |-> exc]

MINYEAR == 1

----------------------------------------------------------------------------
(* budget/parsers.py: parse_month_datetime *)

\* As strip_whitespace, were the label only trimmed at its ends (str.strip()).
RECURSIVE strip_whitespace_ends(_)
strip_whitespace_ends(s) ==
    IF Len(s) = 0 THEN s
    ELSE IF s[1] \in {" ", "\t", "\n"} THEN strip_whitespace_ends(Tail(s))
    ELSE IF s[Len(s)] \in {" ", "\t", "\n"} THEN strip_whitespace_ends(SubSeq(s, 1, Len(s) - 1))
    ELSE s

\* re.sub(r"\s+", "", month_str, flags=re.UNICODE)
strip_whitespace(s) ==
    SelectSeq(s, LAMBDA c : c \notin whitespace)

\* Whether `name` occurs in s at position pos, letter case ignored (re.IGNORECASE).
name_at(s, pos, name) ==
    /\ pos + Len(name) - 1 <= Len(s)
    /\ \A k \in 1..Len(name) : lower_char(s[pos + k - 1]) = name[k]

\* The directive's group (?P<b>jan|feb|...): the indexes of the names found at
\* pos. No name of either list is a prefix of another of that list, so at most one is.
names_at(s, pos, names) ==
    {i \in 1..Len(names) : name_at(s, pos, names[i])}

\* The group (?P<Y>\d\d\d\d) at pos.
year_at(s, pos) ==
    /\ pos + 3 <= Len(s)
    /\ \A k \in 0..3 : is_digit(s[pos + k])

\* As strptime, were text left after the match accepted (re.match without the
\* check of found.end()).
strptime_prefix(s, fmt, with_year) ==
    LET names == IF fmt = "b" THEN a_month ELSE f_month
        found == names_at(s, 1, names)
    IN  IF found = {} THEN Raised("ValueError")
        ELSE LET m   == CHOOSE i \in found : TRUE
                 pos == Len(names[m]) + 1
             IN  IF with_year
                 THEN IF ~year_at(s, pos) THEN Raised("ValueError")
                      ELSE IF int_of(SubSeq(s, pos, pos + 3)) < MINYEAR
                           THEN Raised("ValueError")
                      ELSE datetime(int_of(SubSeq(s, pos, pos + 3)), m, 1, 0, 0)
                 ELSE datetime(1900, m, 1, 0, 0)

\* datetime.strptime(s, fmt) for the four formats the parser uses: fmt is the
\* name directive ("b" or "B") and with_year says whether %Y follows it. The
\* regular expression must match at the start and leave no text unconverted;
\* a year of 0 is out of datetime's range. Every failure is a ValueError.
strptime(s, fmt, with_year) ==
    LET names == IF fmt = "b" THEN a_month ELSE f_month
        found == names_at(s, 1, names)
    IN  IF found = {} THEN Raised("ValueError")
        ELSE LET m   == CHOOSE i \in found : TRUE
                 pos == Len(names[m]) + 1
             IN  IF with_year
                 THEN IF ~year_at(s, pos) THEN Raised("ValueError")
                      ELSE IF pos + 4 /= Len(s) + 1 THEN Raised("ValueError")
                      ELSE IF int_of(SubSeq(s, pos, pos + 3)) < MINYEAR
                           THEN Raised("ValueError")
                      ELSE datetime(int_of(SubSeq(s, pos, pos + 3)), m, 1, 0, 0)
                 ELSE IF pos /= Len(s) + 1 THEN Raised("ValueError")
                      ELSE datetime(1900, m, 1, 0, 0)

\* dt.replace(year=datetime.now().year)
replace_year(dt, y) ==
    [dt EXCEPT !.year = y]

parse_month_datetime(s, clock) ==
    LET formatted == strip_whitespace(s)
        abbr_year == strptime(formatted, "b", TRUE)
        full_year == strptime(formatted, "B", TRUE)
        abbr      == strptime(formatted, "b", FALSE)
        full      == strptime(formatted, "B", FALSE)
    IN  IF abbr_year.tag = "datetime" THEN abbr_year
        ELSE IF full_year.tag = "datetime" THEN full_year
        ELSE IF abbr.tag = "datetime" THEN replace_year(abbr, clock.year)
        ELSE IF full.tag = "datetime" THEN replace_year(full, clock.year)
        ELSE None

----------------------------------------------------------------------------
(* budget/parsers.py: parse_money *)

\* A float: mant * 10^(-scale) in lowest form (mant not a multiple of 10, or
\* 0 with scale 0), so that equal amounts are equal values. The model keeps
\* amounts exact; it does not round them to binary doubles.
RECURSIVE float_value(_, _)
float_value(mant, scale) ==
    IF mant = 0 THEN [tag |-> "float", mant |-> 0, scale |-> 0]
    ELSE IF mant % 10 = 0 THEN float_value(mant \div 10, scale - 1)
    ELSE [tag |-> "float", mant |-> mant, scale |-> scale]

\* float("inf"), float("nan")
float_special(name) ==
    [tag |-> "float", special |-> name]

RECURSIVE pow10(_)
pow10(n) ==
    IF n <= 0 THEN 1 ELSE 10 * pow10(n - 1)

\* a * n for a float a and an int n.
float_times(a, n) ==
    float_value(a.mant * n, a.scale)

\* a + b for two floats.
float_plus(a, b) ==
    LET s == IF a.scale >= b.scale THEN a.scale ELSE b.scale
    IN  float_value(a.mant * pow10(s - a.scale) + b.mant * pow10(s - b.scale), s)

\* The index of the first character of s that is in cs, 0 when there is none.
first_index(s, cs) ==
    IF \E i \in 1..Len(s) : s[i] \in cs
    THEN CHOOSE i \in 1..Len(s) : s[i] \in cs /\ \A j \in 1..(i - 1) : s[j] \notin cs
    ELSE 0

\* str.strip(chars): the characters of cs removed from both ends.
RECURSIVE strip_chars(_, _)
strip_chars(s, cs) ==
    IF Len(s) = 0 THEN s
    ELSE IF s[1] \in cs THEN strip_chars(Tail(s), cs)
    ELSE IF s[Len(s)] \in cs THEN strip_chars(SubSeq(s, 1, Len(s) - 1), cs)
    ELSE s

\* money.strip('$')
strip_dollar(s) ==
    strip_chars(s, {"$"})

\* As remove_commas, were the thousands separators left in the text.
keep_commas(s) ==
    s

\* .replace(',', '')
remove_commas(s) ==
    SelectSeq(s, LAMBDA c : c /= ",")

\* float(): digits with single underscores between them.
digit_part(s) ==
    /\ Len(s) > 0
    /\ \A i \in 1..Len(s) : is_digit(s[i]) \/ s[i] = "_"
    /\ is_digit(s[1])
    /\ is_digit(s[Len(s)])
    /\ \A i \in 1..(Len(s) - 1) : ~(s[i] = "_" /\ s[i + 1] = "_")

only_digits(s) ==
    SelectSeq(s, is_digit)

\* float(): the text after the sign, which is a number: digits with an optional
\* point, then an optional exponent. A text float() rejects gives Raised.
float_unsigned(s) ==
    LET e        == first_index(s, {"e", "E"})
        mantissa == IF e = 0 THEN s ELSE SubSeq(s, 1, e - 1)
        exponent == IF e = 0 THEN <<>> ELSE SubSeq(s, e + 1, Len(s))
        exp_neg  == Len(exponent) > 0 /\ exponent[1] = "-"
        exp_dig  == IF Len(exponent) > 0 /\ exponent[1] \in {"+", "-"}
                    THEN Tail(exponent) ELSE exponent
        p        == first_index(mantissa, {"."})
        int_text == IF p = 0 THEN mantissa ELSE SubSeq(mantissa, 1, p - 1)
        frac     == IF p = 0 THEN <<>> ELSE SubSeq(mantissa, p + 1, Len(mantissa))
        exp_val  == IF e = 0 THEN 0
                    ELSE IF exp_neg THEN 0 - int_of(only_digits(exp_dig))
                    ELSE int_of(only_digits(exp_dig))
    IN  IF e /= 0 /\ ~digit_part(exp_dig) THEN Raised("ValueError")
        ELSE IF int_text = <<>> /\ frac = <<>> THEN Raised("ValueError")
        ELSE IF int_text /= <<>> /\ ~digit_part(int_text) THEN Raised("ValueError")
        ELSE IF frac /= <<>> /\ ~digit_part(frac) THEN Raised("ValueError")
        ELSE float_value(int_of(only_digits(int_text) \o only_digits(frac)),
                         Len(only_digits(frac)) - exp_val)

INF ==
    <<"i","n","f">>
INFINITY ==
    <<"i","n","f","i","n","i","t","y">>
NAN ==
    <<"n","a","n">>

\* float(s) of a text: surrounding whitespace is skipped, a sign may lead, and
\* inf, infinity and nan are floats in any casing.
float_of(s) ==
    LET t      == strip_chars(s, whitespace)
        signed == Len(t) > 0 /\ t[1] \in {"+", "-"}
        body   == IF signed THEN Tail(t) ELSE t
        u      == float_unsigned(body)
    IN  IF lower(body) \in {INF, INFINITY} THEN float_special(IF signed /\ t[1] = "-" THEN "-inf" ELSE "inf")
        ELSE IF lower(body) = NAN THEN float_special("nan")
        ELSE IF u.tag = "float" /\ signed /\ t[1] = "-" THEN float_value(0 - u.mant, u.scale)
        ELSE u

\* As parse_money, were the ValueError of float() not caught (as in the first
\* version of the function).
parse_money_uncaught(s) ==
    float_of(remove_commas(strip_dollar(s)))

parse_money(s) ==
    LET f == float_of(remove_commas(strip_dollar(s)))
    IN  IF f.tag = "raise" THEN None ELSE f

----------------------------------------------------------------------------
(* budget/sheets.py: the configuration tables *)

\* MonthRange.__init__: datetime(start[0], start[1], 1) and the same for end.
MonthRange(start, end) ==
    [start |-> datetime(start[1], start[2], 1, 0, 0),
     end   |-> datetime(end[1], end[2], 1, 0, 0)]

\* dt1 < dt2 for two datetimes.
datetime_lt(a, b) ==
    \/ a.year < b.year
    \/ a.year = b.year /\ a.month < b.month
    \/ a.year = b.year /\ a.month = b.month /\ a.day < b.day
    \/ a.year = b.year /\ a.month = b.month /\ a.day = b.day /\ a.hour < b.hour
    \/ /\ a.year = b.year /\ a.month = b.month /\ a.day = b.day /\ a.hour = b.hour
       /\ a.minute < b.minute

\* dt1 <= dt2
datetime_le(a, b) ==
    a = b \/ datetime_lt(a, b)

\* As contains, were the end of the range inclusive.
contains_closed(range, dt) ==
    datetime_le(range.start, dt) /\ datetime_le(dt, range.end)

\* MonthRange.contains: self.start <= dt < self.end
contains(range, dt) ==
    datetime_le(range.start, dt) /\ datetime_lt(dt, range.end)

\* The dict in the order it is written, which is the order it is iterated in.
_GROCERY_LOC_MAP ==
    << [range |-> MonthRange(<<2020, 3>>, <<2020, 8>>),  a1 |-> "B7:D7"],
       [range |-> MonthRange(<<2020, 9>>, <<2021, 2>>),  a1 |-> "F7"],
       [range |-> MonthRange(<<2021, 2>>, <<2021, 3>>),  a1 |-> "M7"],
       [range |-> MonthRange(<<2021, 3>>, <<2021, 4>>),  a1 |-> "F7"],
       [range |-> MonthRange(<<2021, 4>>, <<2021, 5>>),  a1 |-> "M2"],
       [range |-> MonthRange(<<2021, 8>>, <<2022, 5>>),  a1 |-> "L2"],
       [range |-> MonthRange(<<2022, 5>>, <<2022, 9>>),  a1 |-> "D7"],
       [range |-> MonthRange(<<2022, 10>>, <<2035, 1>>), a1 |-> "E7"] >>

_SPLIT_RENT ==
    {2064860783, 944604678, 74019485}

_EXCLUDED_SHEETS ==
    { <<"A","u","g","2","0","2","0">>, <<"S","e","p","t","2","0","2","2">> }

\* get_grocery_a1: the location of the first range that contains dt, else None.
get_grocery_a1(dt) ==
    LET hits == {i \in 1..Len(_GROCERY_LOC_MAP) : contains(_GROCERY_LOC_MAP[i].range, dt)}
    IN  IF hits = {} THEN None
        ELSE [tag |-> "a1", a1 |-> _GROCERY_LOC_MAP[CHOOSE i \in hits : \A j \in hits : i <= j].a1]

----------------------------------------------------------------------------
(* budget/sheets.py: get_sheet_dataframe *)

\* The keys of the data dict.
K_ID == <<"i","d">>
K_YEAR == <<"y","e","a","r">>
K_MONTH == <<"m","o","n","t","h">>
K_RESIDENTS == <<"r","e","s","i","d","e","n","t","s">>
K_NUM_RESIDENTS == <<"n","u","m","_","r","e","s","i","d","e","n","t","s">>
K_RENT == <<"r","e","n","t">>
K_GROCERIES == <<"g","r","o","c","e","r","i","e","s">>

\* dict.update: the entries of b added to a, replacing those of the same key.
dict_update(a, b) ==
    [k \in DOMAIN a \cup DOMAIN b |-> IF k \in DOMAIN b THEN b[k] ELSE a[k]]

\* {exp[0].lower(): parse_money(exp[1]) for exp in expenses if len(exp) == 2}:
\* a later row replaces an earlier one of the same key.
RECURSIVE expenses_dict(_)
expenses_dict(expenses) ==
    IF Len(expenses) = 0 THEN <<>>
    ELSE LET exp    == expenses[Len(expenses)]
             before == expenses_dict(SubSeq(expenses, 1, Len(expenses) - 1))
         IN  IF Len(exp) = 2
             THEN dict_update(before, [k \in {lower(exp[1])} |-> parse_money(exp[2])])
             ELSE before

\* a * n of Python, n an int that is not negative: a TypeError when a is None.
py_times(a, n) ==
    IF a.tag /= "float" THEN Raised("TypeError")
    ELSE IF "special" \in DOMAIN a
         THEN IF n = 0 THEN float_special("nan") ELSE a
    ELSE float_times(a, n)

\* a + b of Python: a TypeError when either is None.
py_plus(a, b) ==
    IF a.tag = "raise" THEN a
    ELSE IF a.tag /= "float" \/ b.tag /= "float" THEN Raised("TypeError")
    ELSE IF "special" \in DOMAIN a /\ "special" \in DOMAIN b
         THEN IF a = b THEN a ELSE float_special("nan")
    ELSE IF "special" \in DOMAIN a THEN a
    ELSE IF "special" \in DOMAIN b THEN b
    ELSE float_plus(a, b)

\* sum(map(parse_money, cells)): 0 + cell + cell + ...
RECURSIVE py_sum(_)
py_sum(cells) ==
    IF Len(cells) = 0 THEN float_value(0, 0)
    ELSE py_plus(py_sum(SubSeq(cells, 1, Len(cells) - 1)), parse_money(cells[Len(cells)]))

\* A statement that went through, with the data dict it leaves.
Ok(data) ==
    [tag |-> "ok", data |-> data]

\* As split_rent, were the rent of every sheet multiplied.
split_rent_always(data, id) ==
    IF K_RENT \notin DOMAIN data THEN Raised("KeyError")
    ELSE LET rent == py_times(data[K_RENT], data[K_NUM_RESIDENTS])
         IN  IF rent.tag = "raise" THEN rent
             ELSE Ok([data EXCEPT ![K_RENT] = rent])

\* if sheet.id in _SPLIT_RENT: data["rent"] = data["rent"] * data["num_residents"]
\* The data, or what the statement raises: KeyError without a "rent" entry,
\* TypeError when the rent is None.
split_rent(data, id) ==
    IF id \notin _SPLIT_RENT THEN Ok(data)
    ELSE IF K_RENT \notin DOMAIN data THEN Raised("KeyError")
    ELSE LET rent == py_times(data[K_RENT], data[K_NUM_RESIDENTS])
         IN  IF rent.tag = "raise" THEN rent
             ELSE Ok([data EXCEPT ![K_RENT] = rent])

\* if len(groceries) > 0: data["groceries"] = sum(map(parse_money, groceries[0]))
add_groceries(data, groceries) ==
    IF Len(groceries) = 0 THEN Ok(data)
    ELSE LET total == py_sum(groceries[1])
         IN  IF total.tag = "raise" THEN total
             ELSE Ok(dict_update(data, [k \in {K_GROCERIES} |-> total]))

\* The number of cells of a location: "B7:D7" is three cells, the others one.
a1_width(a1) ==
    IF a1 = "B7:D7" THEN 3 ELSE 1

\* sheet.batch_get([EXPENSES_A1, RESIDENTS_A1, groceries_a1]): one value range
\* per location asked for (a location of None is not asked for), a range
\* without values being empty (the builder's len(groceries) > 0 relies on
\* that). s.groceries are the cells from the first cell of the location on.
batch_get(s, groceries_a1) ==
    << s.expenses, IF s.residents = <<>> THEN <<>> ELSE <<s.residents>> >>
    \o (IF groceries_a1 = None THEN <<>>
        ELSE << IF s.groceries = <<>> THEN <<>>
                ELSE << SubSeq(s.groceries, 1,
                               IF Len(s.groceries) < a1_width(groceries_a1.a1)
                               THEN Len(s.groceries) ELSE a1_width(groceries_a1.a1)) >> >>)

\* pd.DataFrame(data) with the index set: one row, its cells keyed by column.
DataFrame(data) ==
    [tag |-> "DataFrame", row |-> data]

\* get_sheet_dataframe(sheet): None for a title that is no month, else the one
\* row built from the sheet's cells, or what the call raises. answered is
\* whether batch_get answered; clock is the moment the title is parsed at.
\* residents[0] of an empty value range is an IndexError.
get_sheet_dataframe(s, clock, answered) ==
    LET dt == parse_month_datetime(s.title, clock)
    IN  IF dt = None THEN None
        ELSE IF ~answered THEN Raised("APIError")
        ELSE IF s.residents = <<>> THEN Raised("IndexError")
        ELSE LET result    == batch_get(s, get_grocery_a1(dt))
                 expenses  == result[1]
                 residents == result[2]
                 groceries == IF Len(result) = 3 THEN result[3] ELSE <<>>
                 head      == [k \in {K_ID, K_YEAR, K_MONTH, K_RESIDENTS, K_NUM_RESIDENTS} |->
                                  CASE k = K_ID -> s.id
                                    [] k = K_YEAR -> dt.year
                                    [] k = K_MONTH -> dt.month
                                    [] k = K_RESIDENTS -> residents[1]
                                    [] OTHER -> Len(residents[1])]
                 data      == dict_update(head, expenses_dict(expenses))
                 adjusted  == split_rent(data, s.id)
             IN  IF adjusted.tag = "raise" THEN adjusted
                 ELSE LET full == add_groceries(adjusted.data, groceries)
                      IN  IF full.tag = "raise" THEN full ELSE DataFrame(full.data)

----------------------------------------------------------------------------
(* Each specification runs one part of the program; the state of the other
   parts stays as it is before they are called. *)

ParseIdle ==
    /\ month_str = <<>>
    /\ label_src = None
    /\ parsed_dt = Pending

MoneyIdle ==
    /\ money = <<>>
    /\ money_src = None
    /\ parsed_money = Pending

BuildIdle ==
    /\ sheet = None
    /\ batch_ok = TRUE
    /\ built = Pending

AssembleIdle ==
    /\ worksheets = <<>>
    /\ futures = <<>>
    /\ consumed = {}
    /\ rows = <<>>
    /\ main_pc = "idle"
    /\ outcome = Pending

EstimateIdle ==
    /\ est_arg = None
    /\ est_dt = None
    /\ est_now = None
    /\ est_residents = 0
    /\ est_df = <<>>
    /\ est_filled = Pending
    /\ estimate = Pending
    /\ est_pc = "idle"

----------------------------------------------------------------------------
(* The labels handed to parse_month_datetime *)

MaxSpaces == 1      \* whitespace characters inserted into one label
MaxFree == 4        \* length of a label written freely over free_alphabet

casings ==
    {"lower", "upper", "capitalized", "mixed"}

\* The month name names[m] in one of the casings ("mixed" is jAnUaRy).
month_text(names, m, casing) ==
    [i \in 1..Len(names[m]) |->
        CASE casing = "lower" -> names[m][i]
          [] casing = "upper" -> upper_char(names[m][i])
          [] casing = "capitalized" -> IF i = 1 THEN upper_char(names[m][i]) ELSE names[m][i]
          [] OTHER -> IF i % 2 = 0 THEN upper_char(names[m][i]) ELSE names[m][i]]

YEAR2020 ==
    <<"2","0","2","0">>
YEAR1999 ==
    <<"1","9","9","9">>
YEAR0001 ==
    <<"0","0","0","1">>
YEAR9999 ==
    <<"9","9","9","9">>
YEAR0000 ==
    <<"0","0","0","0">>
YEAR202020 ==
    <<"2","0","2","0","2","0">>
YEAR20 ==
    <<"2","0">>

\* Year texts: none, 4 digits (the least and the greatest year, and 0000), and
\* texts of 2 and of 6 digits.
year_texts ==
    { <<>>, YEAR2020, YEAR1999, YEAR0001, YEAR9999, YEAR0000, YEAR202020, YEAR20 }

\* Text that is no part of a month name or of a year, before or after them.
junk_texts ==
    { <<>>, <<"x">>, <<"a","s","d">> }

free_alphabet ==
    {"j", "a", "n", "2", " "}

free_labels ==
    UNION {[1..n -> free_alphabet] : n \in 0..MaxFree}

\* A label composed of a month name and a year text, with junk around them.
composed(src) ==
    src.pre \o (IF src.m = 0 THEN <<>> ELSE month_text(IF src.fmt = "b" THEN a_month ELSE f_month, src.m, src.casing))
            \o src.year \o src.post

\* Every month name in every casing with every year text; junk before or after
\* the lower-case names and the bare year texts.
label_sources ==
    [kind : {"composed"}, pre : {<<>>}, m : 1..12, fmt : {"b", "B"},
     casing : casings, year : year_texts, post : {<<>>}]
    \cup [kind : {"composed"}, pre : junk_texts, m : 0..12, fmt : {"b", "B"},
          casing : {"lower"}, year : year_texts, post : {<<>>}]
    \cup [kind : {"composed"}, pre : {<<>>}, m : 0..12, fmt : {"b", "B"},
          casing : {"lower"}, year : year_texts, post : {<<"x">>}]

\* The moments datetime.now() is read at.
clock_values ==
    { datetime(2026, 11, 5, 12, 0), datetime(2027, 1, 1, 0, 0) }

insert_at(s, pos, c) ==
    SubSeq(s, 1, pos) \o <<c>> \o SubSeq(s, pos + 1, Len(s))

count_whitespace(s) ==
    Len(SelectSeq(s, LAMBDA c : c \in whitespace))

InitParse ==
    /\ now = None
    /\ \/ /\ label_src \in label_sources
          /\ label_src.m = 0 => label_src.fmt = "b"
          /\ month_str = composed(label_src)
       \/ /\ month_str \in free_labels
          /\ label_src = [kind |-> "free"]
    /\ parsed_dt = Pending
    /\ MoneyIdle
    /\ BuildIdle
    /\ AssembleIdle
    /\ EstimateIdle

\* Whitespace is typed into a composed label before it is parsed.
InsertWhitespace ==
    /\ parsed_dt = Pending
    /\ label_src.kind = "composed"
    /\ count_whitespace(month_str) < MaxSpaces
    /\ \E pos \in 0..Len(month_str), c \in {" ", "\t"} :
          month_str' = insert_at(month_str, pos, c)
    /\ UNCHANGED <<now, label_src, parsed_dt>>
    /\ UNCHANGED <<money_vars, build_vars, assemble_vars, est_vars>>

\* The call, with the clock at whatever moment the call is made.
ParseMonthDatetime ==
    /\ parsed_dt = Pending
    /\ now' \in clock_values
    /\ parsed_dt' = parse_month_datetime(month_str, now')
    /\ UNCHANGED <<month_str, label_src>>
    /\ UNCHANGED <<money_vars, build_vars, assemble_vars, est_vars>>

NextParse ==
    \/ InsertWhitespace
    \/ ParseMonthDatetime

SpecParse == InitParse /\ [][NextParse]_vars

\* The label is a month name (abbreviated or full, in any casing) followed by
\* the year text, with nothing else but inserted whitespace.
month_and_year_label ==
    /\ label_src.kind = "composed"
    /\ label_src.m /= 0
    /\ label_src.pre = <<>>
    /\ label_src.post = <<>>

\* C6 as claimed: for every month, every 4-digit year text, every casing and
\* any inserted whitespace, a month name followed by the year parses to that
\* year, that month and day 1, and a month name alone to the current year.
C6_EveryFourDigitYear ==
    (parsed_dt /= Pending /\ month_and_year_label) =>
        /\ Len(label_src.year) = 4 =>
              parsed_dt = datetime(int_of(label_src.year), label_src.m, 1, 0, 0)
        /\ Len(label_src.year) = 0 =>
              parsed_dt = datetime(now.year, label_src.m, 1, 0, 0)

\* C6, amended: the same for the 4-digit years 0001 to 9999 (the year 0000 is
\* no year of a datetime). A label that carries such a year gets that year,
\* never the current one.
C6_MonthYear ==
    (parsed_dt /= Pending /\ month_and_year_label) =>
        /\ (Len(label_src.year) = 4 /\ int_of(label_src.year) >= 1) =>
              parsed_dt = datetime(int_of(label_src.year), label_src.m, 1, 0, 0)
        /\ Len(label_src.year) = 0 =>
              parsed_dt = datetime(now.year, label_src.m, 1, 0, 0)

\* C6's case: a full month name in mixed casing with whitespace typed into it,
\* followed by 2020, has been parsed to September 2020.
C6_Witness ==
    /\ parsed_dt = datetime(2020, 9, 1, 0, 0)
    /\ label_src.kind = "composed"
    /\ label_src.fmt = "B"
    /\ label_src.casing = "mixed"
    /\ count_whitespace(month_str) > 0

\* Whether `name` occurs somewhere in s, letter case ignored.
contains_name(s, name) ==
    \E pos \in 1..Len(s) :
        /\ pos + Len(name) - 1 <= Len(s)
        /\ lower(SubSeq(s, pos, pos + Len(name) - 1)) = name

\* The label, whitespace aside, holds no month name at all (every full name
\* starts with its abbreviation).
no_month_token(s) ==
    \A i \in 1..Len(a_month) : ~contains_name(strip_whitespace(s), a_month[i])

\* C7: parse_month_datetime never raises and returns None for the empty
\* label, for a label without a month token, and for a month name followed by
\* a year text that is not exactly 4 digits.
C7_NotParseable ==
    parsed_dt /= Pending =>
        /\ parsed_dt.tag \in {"None", "datetime"}
        /\ month_str = <<>> => parsed_dt = None
        /\ no_month_token(month_str) => parsed_dt = None
        /\ (month_and_year_label /\ Len(label_src.year) \notin {0, 4}) =>
              parsed_dt = None

\* C7's case: a month name followed by a 6-digit year text has been parsed.
C7_Witness ==
    /\ parsed_dt = None
    /\ month_and_year_label
    /\ label_src.year = YEAR202020

----------------------------------------------------------------------------
(* The texts handed to parse_money *)

MaxMoney == 4       \* length of a text written freely over money_alphabet

money_digits ==
    {"0", "5"}

digit_texts(lo, hi) ==
    UNION {[1..n -> money_digits] : n \in lo..hi}

\* An amount as a spreadsheet writes it: an optional "$", digits, optionally a
\* group of thousands with or without its separator, optionally a fraction.
money_sources ==
    [kind : {"amount"}, symbol : BOOLEAN, head : digit_texts(1, 3),
     thousands : {<<>>} \cup digit_texts(3, 3), separator : BOOLEAN,
     fraction : digit_texts(0, 2)]

amount_text(src) ==
    (IF src.symbol THEN <<"$">> ELSE <<>>)
    \o src.head
    \o (IF src.thousands = <<>> THEN <<>>
        ELSE (IF src.separator THEN <<",">> ELSE <<>>) \o src.thousands)
    \o (IF src.fraction = <<>> THEN <<>> ELSE <<".">> \o src.fraction)

MONEY_1234_56 ==
    <<"$","1",",","2","3","4",".","5","6">>
MONEY_5_67 ==
    <<"5",".","6","7">>
MONEY_D5_67 ==
    <<"$","5",".","6","7">>
HELLO_WORLD ==
    <<"h","e","l","l","o"," ","w","o","r","l","d">>
MONEY_NAN ==
    <<"n","a","n">>
MONEY_INF ==
    <<"i","n","f">>
MONEY_1_0 ==
    <<"1","_","0">>
MONEY_PLUS5 ==
    <<"+","5">>
MONEY_SP5 ==
    <<" ","5"," ">>
MONEY_1E3 ==
    <<"1","e","3">>

\* The texts of the tests, and texts float() accepts that are no plain decimals.
named_money ==
    { MONEY_1234_56, MONEY_5_67, MONEY_D5_67, HELLO_WORLD, MONEY_NAN, MONEY_INF, MONEY_1_0, MONEY_PLUS5, MONEY_SP5, MONEY_1E3 }

money_alphabet ==
    {"$", ",", ".", "0", "5", "e", "-", "h"}

free_money ==
    UNION {[1..n -> money_alphabet] : n \in 0..MaxMoney}

InitMoney ==
    /\ now = None
    /\ ParseIdle
    /\ BuildIdle
    /\ AssembleIdle
    /\ EstimateIdle
    /\ \/ /\ money_src \in money_sources
          /\ money_src.thousands = <<>> => ~money_src.separator
          /\ money = amount_text(money_src)
       \/ /\ money \in named_money \cup free_money
          /\ money_src = [kind |-> "free"]
    /\ parsed_money = Pending

ParseMoney ==
    /\ parsed_money = Pending
    /\ parsed_money' = parse_money(money)
    /\ UNCHANGED <<now, money, money_src>>
    /\ UNCHANGED <<parse_vars, build_vars, assemble_vars, est_vars>>

NextMoney ==
    ParseMoney

SpecMoney == InitMoney /\ [][NextMoney]_vars

\* C8: an optional leading "$" followed by a decimal number with optional
\* thousands separators parses to that decimal amount; "$1,234.56" gives
\* 1234.56, "5" and "5.00" give 5.0, "5.67" and "$5.67" give 5.67.
C8_DecimalAmount ==
    parsed_money /= Pending =>
        /\ money_src.kind = "amount" =>
              parsed_money =
                  float_value(int_of(money_src.head \o money_src.thousands \o money_src.fraction),
                              Len(money_src.fraction))
        /\ money = MONEY_1234_56 => parsed_money = float_value(123456, 2)
        /\ money = <<"5">> => parsed_money = float_value(5, 0)
        /\ money = <<"5", ".", "0", "0">> => parsed_money = float_value(5, 0)
        /\ money \in {MONEY_5_67, MONEY_D5_67} => parsed_money = float_value(567, 2)

\* C8's case: an amount with a "$", a thousands separator and a fraction has
\* been parsed to a number.
C8_Witness ==
    /\ parsed_money = float_value(500005, 1)
    /\ money_src.kind = "amount"
    /\ money_src.symbol
    /\ money_src.separator
    /\ money_src.fraction /= <<>>

\* s without every occurrence of c.
RECURSIVE without(_, _)
without(s, c) ==
    IF Len(s) = 0 THEN <<>>
    ELSE IF s[1] = c THEN without(Tail(s), c)
    ELSE <<s[1]>> \o without(Tail(s), c)

\* One or more digits.
all_digits(s) ==
    Len(s) > 0 /\ \A i \in 1..Len(s) : is_digit(s[i])

\* A decimal number: an optional sign, then digits with an optional point
\* among them.
decimal_number(s) ==
    LET u == IF Len(s) > 0 /\ s[1] \in {"+", "-"} THEN Tail(s) ELSE s
    IN  \E p \in 0..Len(u) :
            LET before == SubSeq(u, 1, p)
                after  == SubSeq(u, p + 1, Len(u))
            IN  \/ after = <<>> /\ all_digits(before)
                \/ /\ after /= <<>>
                   /\ after[1] = "."
                   /\ before = <<>> \/ all_digits(before)
                   /\ Tail(after) = <<>> \/ all_digits(Tail(after))
                   /\ before /= <<>> \/ Tail(after) /= <<>>

\* The text as C9 describes its cleaning: one leading "$" and the thousands
\* separators removed.
leading_symbol_removed(s) ==
    without(IF Len(s) > 0 /\ s[1] = "$" THEN Tail(s) ELSE s, ",")

\* C9 as claimed: parse_money never raises, and returns None for the empty
\* text and for every text that is no decimal number once the leading "$" and
\* the thousands separators are removed.
C9_EveryNonDecimal ==
    parsed_money /= Pending =>
        /\ parsed_money.tag \in {"None", "float"}
        /\ money = <<>> => parsed_money = None
        /\ ~decimal_number(leading_symbol_removed(money)) => parsed_money = None

\* Digits in groups joined by single underscores.
grouped_digits(s) ==
    /\ Len(s) > 0
    /\ \A i \in 1..Len(s) :
          \/ is_digit(s[i])
          \/ s[i] = "_" /\ 1 < i /\ i < Len(s) /\ is_digit(s[i - 1]) /\ is_digit(s[i + 1])

\* The syntax of the texts float() accepts: whitespace around, an optional
\* sign, then inf, infinity or nan, or digits with an optional point and an
\* optional exponent.
float_literal(s) ==
    \E a \in 1..(Len(s) + 1), b \in 0..Len(s) :
        /\ a <= b
        /\ \A i \in 1..(a - 1) : s[i] \in whitespace
        /\ \A i \in (b + 1)..Len(s) : s[i] \in whitespace
        /\ LET core == SubSeq(s, a, b)
               u    == IF core[1] \in {"+", "-"} THEN Tail(core) ELSE core
           IN  \/ lower(u) \in {INF, INFINITY, NAN}
               \/ \E k \in 1..Len(u) :
                      LET mantissa == SubSeq(u, 1, k)
                          rest     == SubSeq(u, k + 1, Len(u))
                      IN  /\ \E p \in 0..k :
                                LET before == SubSeq(mantissa, 1, p)
                                    after  == SubSeq(mantissa, p + 1, k)
                                IN  \/ after = <<>> /\ grouped_digits(before)
                                    \/ /\ after /= <<>>
                                       /\ after[1] = "."
                                       /\ before = <<>> \/ grouped_digits(before)
                                       /\ Tail(after) = <<>> \/ grouped_digits(Tail(after))
                                       /\ before /= <<>> \/ Tail(after) /= <<>>
                          /\ \/ rest = <<>>
                             \/ /\ rest[1] \in {"e", "E"}
                                /\ LET x == Tail(rest)
                                   IN  /\ x /= <<>>
                                       /\ grouped_digits(IF x[1] \in {"+", "-"} THEN Tail(x) ELSE x)

\* The text between its first and its last character that is not "$",
\* without its thousands separators.
symbols_removed(s) ==
    LET keep == {i \in 1..Len(s) : s[i] /= "$"}
    IN  IF keep = {} THEN <<>>
        ELSE without(SubSeq(s, CHOOSE i \in keep : \A j \in keep : i <= j,
                               CHOOSE i \in keep : \A j \in keep : i >= j), ",")

\* C9, amended: parse_money never raises, and returns None for the empty text
\* and for every text that float() does not accept once every leading and
\* trailing "$" and the thousands separators are removed; every other text
\* gives a number.
C9_NotAFloat ==
    parsed_money /= Pending =>
        /\ parsed_money.tag \in {"None", "float"}
        /\ money = <<>> => parsed_money = None
        /\ ~float_literal(symbols_removed(money)) <=> parsed_money = None

\* C9's case: the non-numeric text of the tests has been parsed.
C9_Witness ==
    /\ parsed_money = None
    /\ money = HELLO_WORLD

----------------------------------------------------------------------------
(* budget/sheets.py: get_spreadsheet_dataframe *)

MaxSheets == 3      \* worksheets of the spreadsheet

\* The worksheets a spreadsheet is made of, each with its own id: two sheets
\* of the same month, sheets of sources in _SPLIT_RENT with a rent that parses
\* and one that does not, an excluded sheet, a sheet that is no month, and a
\* sheet without title.
workbook ==
    { [id |-> 0, title |-> <<"A","p","r","2","0","2","0">>,
       expenses |-> << <<<<"R","e","n","t">>, <<"1","0","0","0">>>>, <<<<"P","o","w","e","r">>, <<"$","1",",","0","5","0",".","5","0">>>> >>,
       residents |-> <<"Ann", "Bob">>, groceries |-> <<<<"5">>, <<"5",".","5">>>>],
      [id |-> 1, title |-> <<"A","p","r","i","l"," ","2","0","2","0">>,
       expenses |-> << <<<<"R","e","n","t">>, <<"n","/","a">>>> >>,
       residents |-> <<"Ann", "Bob">>, groceries |-> <<>>],
      [id |-> 2064860783, title |-> <<"J","a","n","2","0","2","1">>,
       expenses |-> << <<<<"R","e","n","t">>, <<"1","0","0","0">>>> >>,
       residents |-> <<"Ann", "Bob", "Cy", "Di">>, groceries |-> <<<<"5","0">>>>],
      [id |-> 944604678, title |-> <<"F","e","b","2","0","2","1">>,
       expenses |-> << <<<<"R","e","n","t">>, <<"n","/","a">>>> >>,
       residents |-> <<"Ann", "Bob">>, groceries |-> <<>>],
      [id |-> 3, title |-> <<"A","u","g","2","0","2","0">>,
       expenses |-> << <<<<"R","e","n","t">>, <<"1","0","0","0">>>> >>,
       residents |-> <<"Ann", "Bob">>, groceries |-> <<>>],
      [id |-> 4, title |-> <<"N","o","t","e","s">>,
       expenses |-> <<>>, residents |-> <<>>, groceries |-> <<>>],
      [id |-> 5, title |-> <<>>,
       expenses |-> <<>>, residents |-> <<>>, groceries |-> <<>>] }

\* The spreadsheets: up to MaxSheets worksheets of the workbook, no id twice.
spreadsheets ==
    {ws \in UNION {[1..n -> workbook] : n \in 0..MaxSheets} :
        \A i, j \in 1..Len(ws) : i /= j => ws[i].id /= ws[j].id}

InitAssemble ==
    /\ now = datetime(2026, 11, 5, 12, 0)
    /\ ParseIdle
    /\ MoneyIdle
    /\ BuildIdle
    /\ EstimateIdle
    /\ worksheets \in spreadsheets
    /\ futures = <<>>
    /\ consumed = {}
    /\ rows = <<>>
    /\ main_pc = "start"
    /\ outcome = Pending

\* As concat, were the dataset keyed by period: a row replaces the rows of
\* the same year and month.
concat_by_period(df, data) ==
    IF data = None THEN df
    ELSE SelectSeq(df, LAMBDA r : ~(r[K_YEAR] = data.row[K_YEAR] /\ r[K_MONTH] = data.row[K_MONTH]))
         \o <<data.row>>

\* pd.concat([df, data]): the row of data after those of df; a data of None
\* is dropped.
concat(df, data) ==
    IF data = None THEN df
    ELSE Append(df, data.row)

\* As SubmitAll, were the worksheets not filtered by _EXCLUDED_SHEETS.
SubmitUnfiltered ==
    /\ main_pc = "start"
    /\ futures' = [i \in {k \in 1..Len(worksheets) : worksheets[k].title /= <<>>} |->
                      [state |-> "pending", result |-> Pending]]
    /\ main_pc' = "collecting"
    /\ UNCHANGED <<now, worksheets, consumed, rows, outcome>>
    /\ UNCHANGED <<parse_vars, money_vars, build_vars, est_vars>>

\* sheets = [s for s in spreadsheet.worksheets() if s.title not in _EXCLUDED_SHEETS]
\* and one task submitted for each of them that has a title. The pool has at
\* least five workers, so no task of these spreadsheets waits for a free one.
SubmitAll ==
    /\ main_pc = "start"
    /\ futures' = [i \in {k \in 1..Len(worksheets) :
                            /\ worksheets[k].title \notin _EXCLUDED_SHEETS
                            /\ worksheets[k].title /= <<>>} |->
                      [state |-> "pending", result |-> Pending]]
    /\ main_pc' = "collecting"
    /\ UNCHANGED <<now, worksheets, consumed, rows, outcome>>
    /\ UNCHANGED <<parse_vars, money_vars, build_vars, est_vars>>

\* A worker takes the task: get_sheet_dataframe parses the title and returns
\* None, or sends batch_get.
TaskStart(i) ==
    /\ i \in DOMAIN futures
    /\ futures[i].state = "pending"
    /\ futures' = [futures EXCEPT ![i] =
                      IF parse_month_datetime(worksheets[i].title, now) = None
                      THEN [state |-> "finished", result |-> None]
                      ELSE [state |-> "running", result |-> Pending]]
    /\ UNCHANGED <<now, worksheets, consumed, rows, main_pc, outcome>>
    /\ UNCHANGED <<parse_vars, money_vars, build_vars, est_vars>>

\* As TaskFinish, were the task to append its row to the dataset itself.
TaskFinishAppends(i) ==
    /\ i \in DOMAIN futures
    /\ futures[i].state = "running"
    /\ \E answered \in BOOLEAN :
          LET result == get_sheet_dataframe(worksheets[i], now, answered)
          IN  /\ futures' = [futures EXCEPT ![i] = [state |-> "finished", result |-> result]]
              /\ rows' = IF result.tag = "DataFrame" THEN concat(rows, result) ELSE rows
    /\ UNCHANGED <<now, worksheets, consumed, main_pc, outcome>>
    /\ UNCHANGED <<parse_vars, money_vars, build_vars, est_vars>>

\* batch_get answers or raises, and the task builds its row or raises.
TaskFinish(i) ==
    /\ i \in DOMAIN futures
    /\ futures[i].state = "running"
    /\ \E answered \in BOOLEAN :
          futures' = [futures EXCEPT ![i] =
                         [state |-> "finished",
                          result |-> get_sheet_dataframe(worksheets[i], now, answered)]]
    /\ UNCHANGED <<now, worksheets, consumed, rows, main_pc, outcome>>
    /\ UNCHANGED <<parse_vars, money_vars, build_vars, est_vars>>

\* One round of the loop over as_completed: future.result() returns the data,
\* which is concatenated, or raises what the task raised, which leaves the loop.
Collect(i) ==
    /\ main_pc = "collecting"
    /\ i \in DOMAIN futures
    /\ i \notin consumed
    /\ futures[i].state = "finished"
    /\ consumed' = consumed \cup {i}
    /\ IF futures[i].result.tag = "raise"
       THEN /\ main_pc' = "raising"
            /\ outcome' = futures[i].result
            /\ UNCHANGED rows
       ELSE /\ rows' = concat(rows, futures[i].result)
            /\ UNCHANGED <<main_pc, outcome>>
    /\ UNCHANGED <<now, worksheets, futures>>
    /\ UNCHANGED <<parse_vars, money_vars, build_vars, est_vars>>

\* The loop is over: the executor is left, the session closed, df returned.
Return ==
    /\ main_pc = "collecting"
    /\ consumed = DOMAIN futures
    /\ main_pc' = "returned"
    /\ outcome' = [tag |-> "DataFrame", rows |-> rows]
    /\ UNCHANGED <<now, worksheets, futures, consumed, rows>>
    /\ UNCHANGED <<parse_vars, money_vars, build_vars, est_vars>>

\* The exception leaves the with block: the executor's shutdown waits for
\* every task, then the exception leaves get_spreadsheet_dataframe.
Unwind ==
    /\ main_pc = "raising"
    /\ \A i \in DOMAIN futures : futures[i].state = "finished"
    /\ main_pc' = "raised"
    /\ UNCHANGED <<now, worksheets, futures, consumed, rows, outcome>>
    /\ UNCHANGED <<parse_vars, money_vars, build_vars, est_vars>>

NextAssemble ==
    \/ SubmitAll
    \/ \E i \in 1..Len(worksheets) : TaskStart(i)
    \/ \E i \in 1..Len(worksheets) : TaskFinish(i)
    \/ \E i \in 1..Len(worksheets) : Collect(i)
    \/ Return
    \/ Unwind

SpecAssemble == InitAssemble /\ [][NextAssemble]_vars

\* The Builder's result for worksheet i, its batch_get answered.
builder_result(i) ==
    get_sheet_dataframe(worksheets[i], now, TRUE)

\* The inputs whose label is not excluded and whose Builder result is a record.
contributing ==
    {i \in 1..Len(worksheets) :
        /\ worksheets[i].title \notin _EXCLUDED_SHEETS
        /\ builder_result(i).tag = "DataFrame"}

\* C1: in whatever order the tasks complete, the dataset returned holds
\* exactly one row per input whose label is not excluded and whose Builder
\* result is not Skip: every row occurs as often as it is such a result, so
\* inputs of the same period stay separate rows.
C1_RowsAreBuilderResults ==
    main_pc = "returned" =>
        /\ Len(outcome.rows) = Cardinality(contributing)
        /\ \A i \in contributing :
              Cardinality({k \in 1..Len(outcome.rows) : outcome.rows[k] = builder_result(i).row})
              = Cardinality({j \in contributing : builder_result(j).row = builder_result(i).row})

\* C1's case: a dataset with two rows of the same year and month was returned.
C1_Witness ==
    /\ main_pc = "returned"
    /\ Len(outcome.rows) = 2
    /\ outcome.rows[1][K_YEAR] = outcome.rows[2][K_YEAR]
    /\ outcome.rows[1][K_MONTH] = outcome.rows[2][K_MONTH]
    /\ outcome.rows[1][K_ID] /= outcome.rows[2][K_ID]

\* The tasks whose batch_get raised.
retrieval_faults ==
    {i \in DOMAIN futures : futures[i].result = Raised("APIError")}

\* C2 as claimed: when the only failures are retrieval faults of some tasks
\* and another task built a record, get_spreadsheet_dataframe ends by
\* returning, after all tasks have finished, the dataset of the records of
\* the other tasks.
C2_FaultDoesNotAbort ==
    (/\ main_pc \in {"returned", "raised"}
     /\ retrieval_faults /= {}
     /\ \E j \in DOMAIN futures : futures[j].result.tag = "DataFrame"
     /\ \A i \in DOMAIN futures :
           futures[i].result.tag = "raise" => i \in retrieval_faults) =>
        /\ main_pc = "returned"
        /\ \A i \in DOMAIN futures : futures[i].state = "finished"
        /\ Len(outcome.rows) = Cardinality(contributing \ retrieval_faults)
        /\ \A i \in contributing \ retrieval_faults :
              \E k \in 1..Len(outcome.rows) : outcome.rows[k] = builder_result(i).row

\* The labels the configuration excludes, as the program's source lists them.
excluded_labels ==
    { <<"A","u","g","2","0","2","0">>, <<"S","e","p","t","2","0","2","2">> }

\* The worksheet a row was built from: the one with the row's id.
row_source(row) ==
    {i \in 1..Len(worksheets) : worksheets[i].id = row[K_ID]}

\* C12: at every moment of assembly, no task exists for a worksheet whose
\* title is an excluded label, so the builder is never called for it, and
\* every row collected or returned comes from a worksheet whose title is not
\* excluded and is a month.
C12_ExcludedNeverBuilt ==
    /\ \A i \in 1..Len(worksheets) :
          worksheets[i].title \in excluded_labels => i \notin DOMAIN futures
    /\ \A k \in 1..Len(rows) :
          /\ row_source(rows[k]) /= {}
          /\ \A i \in row_source(rows[k]) :
                /\ worksheets[i].title \notin excluded_labels
                /\ parse_month_datetime(worksheets[i].title, now) /= None
    /\ main_pc = "returned" => outcome.rows = rows

\* C12's case: a spreadsheet with an excluded worksheet, a worksheet that is
\* no month and a month worksheet was assembled, and one row was returned.
C12_Witness ==
    /\ main_pc = "returned"
    /\ \E i \in 1..Len(worksheets) : worksheets[i].title \in excluded_labels
    /\ \E i \in 1..Len(worksheets) : worksheets[i].title = <<"N","o","t","e","s">>
    /\ Len(outcome.rows) = 1


\* The tasks inside sheet.batch_get: each request goes through the one client
\* (and its session) that get_spreadsheet_dataframe opened the spreadsheet with.
client_users ==
    {i \in DOMAIN futures : futures[i].state = "running"}

collected_rows ==
    {i \in consumed : futures[i].result.tag = "DataFrame"}

----------------------------------------------------------------------------
(* The worksheets handed to get_sheet_dataframe *)

sheet_ids ==
    {0, 2064860783}

\* Titles at the start, inside and at the end of a grocery range, in a gap
\* between ranges, without a year, and one that is no month.
sheet_titles ==
    { <<"M","a","r","2","0","2","0">>, <<"J","u","l","2","0","2","0">>, <<"A","u","g","2","0","2","0">>, <<"F","e","b","2","0","2","1">>, <<"J","u","n","2","0","2","1">>, <<"J","a","n">>, <<"N","o","t","e","s">> }

\* The rows of A2:B6 that hold the rent: none, an amount, a text that is no
\* amount, an amount with symbol and separator, a label without amount, and
\* two rows of the same category.
rent_rows ==
    { <<>>,
      << <<<<"R","e","n","t">>, <<"1","0","0","0">>>> >>,
      << <<<<"R","e","n","t">>, <<"n","/","a">>>> >>,
      << <<<<"R","E","N","T">>, <<"$","1",",","0","0","0",".","5","0">>>> >>,
      << <<<<"R","e","n","t">>>> >>,
      << <<<<"R","e","n","t">>, <<"1","0","0","0">>>>, <<<<"r","e","n","t">>, <<"9","0","0">>>> >> }

power_rows ==
    { <<>>,
      << <<<<"P","o","w","e","r">>, <<"5","0",".","5">>>> >>,
      << <<<<"P","o","w","e","r">>, <<"x">>>> >> }

resident_rows ==
    { <<>>, <<"Ann", "Bob">>, <<"Ann", "Bob", "Cy", "Di">> }

\* The cells at the grocery location: none, one amount, two amounts, a row
\* with an empty cell between two amounts, a text that is no amount.
grocery_rows ==
    { <<>>, <<<<"5","0">>>>, <<<<"5">>, <<"5",".","5">>>>, <<<<"1","0">>, <<>>, <<"5">>>>, <<<<"x">>>> }

sheet_inputs ==
    {[id |-> i, title |-> ti, expenses |-> r \o p, residents |-> res, groceries |-> g] :
        i \in sheet_ids, ti \in sheet_titles, r \in rent_rows, p \in power_rows,
        res \in resident_rows, g \in grocery_rows}

InitBuild ==
    /\ now = None
    /\ ParseIdle
    /\ MoneyIdle
    /\ AssembleIdle
    /\ EstimateIdle
    /\ sheet \in sheet_inputs
    /\ batch_ok = TRUE
    /\ built = Pending

\* One call of get_sheet_dataframe: the clock is at whatever moment the call
\* is made, and the spreadsheet service answers batch_get or fails.
GetSheetDataframe ==
    /\ built = Pending
    /\ now' \in clock_values
    /\ \E answered \in BOOLEAN :
          /\ batch_ok' = answered
          /\ built' = get_sheet_dataframe(sheet, now', answered)
    /\ UNCHANGED sheet
    /\ UNCHANGED <<parse_vars, money_vars, assemble_vars, est_vars>>

NextBuild ==
    GetSheetDataframe

SpecBuild == InitBuild /\ [][NextBuild]_vars

\* The rows of A2:B6 that are a pair of a label and an amount text.
is_pair(expenses, i) ==
    Len(expenses[i]) = 2

\* The pair that decides the column `key`: the last pair with that label.
deciding_pair(expenses, i) ==
    /\ is_pair(expenses, i)
    /\ \A j \in (i + 1)..Len(expenses) :
          is_pair(expenses, j) => lower(expenses[j][1]) /= lower(expenses[i][1])

has_rent_pair(expenses) ==
    \E i \in 1..Len(expenses) : is_pair(expenses, i) /\ lower(expenses[i][1]) = K_RENT

\* C3 as claimed, for the sheets with a month title, a rent pair, a resident
\* and an answered batch_get: the builder returns a record, and every amount
\* text that does not parse is kept in it as a missing value of its category.
C3_UnparseableKeptAsMissing ==
    (/\ built /= Pending
     /\ batch_ok
     /\ Len(sheet.residents) > 0
     /\ parse_month_datetime(sheet.title, now) /= None
     /\ has_rent_pair(sheet.expenses)) =>
        /\ built.tag = "DataFrame"
        /\ \A i \in 1..Len(sheet.expenses) :
              (deciding_pair(sheet.expenses, i) /\ parse_money(sheet.expenses[i][2]) = None) =>
                  /\ lower(sheet.expenses[i][1]) \in DOMAIN built.row
                  /\ built.row[lower(sheet.expenses[i][1])] = None

\* The grocery cells the builder was given for its sheet.
fetched_groceries ==
    LET got == batch_get(sheet, get_grocery_a1(parse_month_datetime(sheet.title, now)))
    IN  IF Len(got) = 3 /\ Len(got[3]) > 0 THEN got[3][1] ELSE <<>>

\* C10: in every record built, the rent of a source in _SPLIT_RENT is the
\* parsed rent amount times the number of residents (1000 with 4 residents
\* gives 4000), the rent of any other source is the parsed amount, and every
\* other category holds its parsed amount (the groceries their plain sum).
C10_RentSplit ==
    (built /= Pending /\ built.tag = "DataFrame") =>
        /\ \A i \in 1..Len(sheet.expenses) :
              deciding_pair(sheet.expenses, i) =>
                  LET key    == lower(sheet.expenses[i][1])
                      amount == parse_money(sheet.expenses[i][2])
                  IN  built.row[key] =
                          IF key = K_RENT /\ sheet.id \in _SPLIT_RENT
                          THEN float_times(amount, Len(sheet.residents))
                          ELSE amount
        /\ K_GROCERIES \in DOMAIN built.row =>
              built.row[K_GROCERIES] = py_sum(fetched_groceries)
        /\ (/\ sheet.id \in _SPLIT_RENT
            /\ sheet.expenses = << <<<<"R","e","n","t">>, <<"1","0","0","0">>>> >>
            /\ Len(sheet.residents) = 4) =>
              built.row[K_RENT] = float_value(4000, 0)

\* C10's case: a record of a source in _SPLIT_RENT with 4 residents has been
\* built, and its rent is 4000.
C10_Witness ==
    /\ built /= Pending
    /\ built.tag = "DataFrame"
    /\ sheet.id \in _SPLIT_RENT
    /\ Len(sheet.residents) = 4
    /\ built.row[K_RENT] = float_value(4000, 0)
    /\ K_GROCERIES \in DOMAIN built.row

\* The months counted from year 0: the order of the periods.
month_index(year, month) ==
    year * 12 + month

\* The period of dt lies in the i-th configured range, its start month
\* included and its end month not.
in_configured_range(i, dt) ==
    LET r == _GROCERY_LOC_MAP[i].range
    IN  /\ month_index(r.start.year, r.start.month) <= month_index(dt.year, dt.month)
        /\ month_index(dt.year, dt.month) < month_index(r.end.year, r.end.month)

\* The period of the sheet the builder was called for.
sheet_period ==
    parse_month_datetime(sheet.title, now)

\* C11: for the period of every sheet the builder was called for, the lookup
\* returns a location exactly when a configured range holds the period
\* (start month included, end month excluded), the location is that of such
\* a range, the start month of a range gets that range's location and the end
\* month does not; a record built for a period in no range has no groceries.
C11_GroceryLookup ==
    (built /= Pending /\ sheet_period /= None) =>
        LET dt  == sheet_period
            loc == get_grocery_a1(dt)
        IN  /\ (loc /= None) <=> (\E i \in 1..Len(_GROCERY_LOC_MAP) : in_configured_range(i, dt))
            /\ loc /= None =>
                  \E i \in 1..Len(_GROCERY_LOC_MAP) :
                      in_configured_range(i, dt) /\ loc.a1 = _GROCERY_LOC_MAP[i].a1
            /\ \A i \in 1..Len(_GROCERY_LOC_MAP) :
                  LET r == _GROCERY_LOC_MAP[i].range
                  IN  /\ (dt.year = r.start.year /\ dt.month = r.start.month) =>
                          (loc /= None /\ loc.a1 = _GROCERY_LOC_MAP[i].a1)
                      /\ (dt.year = r.end.year /\ dt.month = r.end.month) =>
                          \A j \in 1..Len(_GROCERY_LOC_MAP) :
                              (loc /= None /\ in_configured_range(j, dt) /\ loc.a1 = _GROCERY_LOC_MAP[j].a1)
                                  => j /= i
            /\ (built.tag = "DataFrame" /\ K_GROCERIES \in DOMAIN built.row) => loc /= None
            /\ (sheet.title = <<"M","a","r","2","0","2","0">>) => (loc /= None /\ loc.a1 = "B7:D7")
            /\ (sheet.title = <<"A","u","g","2","0","2","0">>) => loc = None
            /\ (sheet.title = <<"F","e","b","2","0","2","1">>) => (loc /= None /\ loc.a1 = "M7")

\* C11's case: a record was built for the end month of a range that no other
\* range holds, from a sheet with grocery cells, and it has no groceries.
C11_Witness ==
    /\ built /= Pending
    /\ built.tag = "DataFrame"
    /\ sheet.title = <<"A","u","g","2","0","2","0">>
    /\ sheet.groceries /= <<>>
    /\ K_GROCERIES \notin DOMAIN built.row


----------------------------------------------------------------------------
(* budget/analysis.py: estimate_rent, called by budget/scripts/estimate.py *)

MaxRows == 2        \* rows of the dataset read from the database

RECURSIVE gcd(_, _)
gcd(a, b) ==
    IF b = 0 THEN a ELSE gcd(b, a % b)

\* An amount of the dataset: num / den in lowest terms.
ratio(num, den) ==
    LET g == gcd(num, den)
    IN  [tag |-> "float", num |-> num \div g, den |-> den \div g]

\* The expense columns: df.columns.difference(EXCLUDE_COLS), sorted by name.
expenses_cols ==
    <<"power", "rent">>

\* Series.mean(): the mean of the values of a column that are not missing,
\* None (NaN) when all are missing.
RECURSIVE sum_nums(_, _)
sum_nums(df, col) ==
    IF Len(df) = 0 THEN 0
    ELSE sum_nums(Tail(df), col) + (IF df[1][col] = None THEN 0 ELSE df[1][col].num)

column_mean(df, col) ==
    LET present == {i \in 1..Len(df) : df[i][col] /= None}
    IN  IF present = {} THEN None
        ELSE ratio(sum_nums(df, col), Cardinality(present))

\* df.fillna(df.mean(numeric_only=True)): a missing value becomes the mean of
\* its column; a column without any value stays missing.
fillna(df) ==
    [i \in 1..Len(df) |->
        [c \in DOMAIN df[i] |->
            IF c \in {"power", "rent"} /\ df[i][c] = None
            THEN column_mean(df, c) ELSE df[i][c]]]

\* LinearRegression().fit(x.values, y).predict([[dt.year, dt.month, residents]]):
\* the least-squares prediction, kept as the term of its inputs. fit raises
\* ValueError for a y with a missing value.
predict(df, col, dt, residents) ==
    IF \E i \in 1..Len(df) : df[i][col] = None THEN Raised("ValueError")
    ELSE [tag |-> "prediction",
          x   |-> [i \in 1..Len(df) |-> <<df[i].year, df[i].month, df[i].num_residents>>],
          y   |-> [i \in 1..Len(df) |-> df[i][col]],
          at  |-> <<dt.year, dt.month, residents>>]

\* As assert_passes, were only the years compared.
assert_passes_year(dt, clock) ==
    dt.year >= clock.year

\* assert dt >= datetime.now()
assert_passes(dt, clock) ==
    datetime_le(clock, dt)

\* The moments the estimate script runs at: the first instant of a month,
\* inside a month, its last minute, and the turn of the year.
est_clock_values ==
    << datetime(2026, 11, 1, 0, 0), datetime(2026, 11, 5, 12, 0),
       datetime(2026, 11, 30, 23, 59), datetime(2026, 12, 31, 23, 59),
       datetime(2027, 1, 1, 0, 0) >>

\* The MONTH arguments: the current month with and without year, a past and
\* a coming month, a month name alone, and a text that is no month.
est_args ==
    { [tag |-> "str", value |-> s] : s \in
        { <<"N","o","v">>, <<"N","o","v"," ","2","0","2","6">>, <<"O","c","t"," ","2","0","2","6">>, <<"D","e","c","e","m","b","e","r"," ","2","0","2","6">>, <<"j","a","n","2","0","2","7">>, <<"J","a","n">>, <<"s","o","o","n">> } }

OutlierRows == 11   \* rows of the dataset with an outlier

\* A dataset whose last rent is far from the others: with fewer than 11
\* values no value is more than 3 sample standard deviations from the mean.
outlier_dataset ==
    [i \in 1..OutlierRows |->
        [id |-> i, year |-> 2026, month |-> i, num_residents |-> 2,
         rent |-> IF i = OutlierRows THEN ratio(500, 1) ELSE ratio(100, 1),
         power |-> ratio(50, 1)]]

\* The mask of remove_outliers for the value of row i in column col, over a
\* dataset of whole amounts: np.abs(df - df.mean()) <= (3 * df.std()), mean and
\* sample standard deviation taken over the n values that are not missing.
\* With v the value and S the sum, it is (n-1)(n v - S)^2 <= 9 SUM (n x - S)^2;
\* a missing value, and the one value of a column (std is NaN), are masked.
RECURSIVE sum_squares(_, _, _, _)
sum_squares(df, col, n, total) ==
    IF Len(df) = 0 THEN 0
    ELSE sum_squares(Tail(df), col, n, total)
         + (IF df[1][col] = None THEN 0
            ELSE (n * df[1][col].num - total) * (n * df[1][col].num - total))

within_3_std(df, col, i) ==
    LET n == Cardinality({k \in 1..Len(df) : df[k][col] /= None})
        total == sum_nums(df, col)
    IN  /\ df[i][col] /= None
        /\ n > 1
        /\ (n - 1) * (n * df[i][col].num - total) * (n * df[i][col].num - total)
              <= 9 * sum_squares(df, col, n, total)

\* A dataset of consecutive months with a rent and a power column, a value of
\* which may be missing.
est_datasets ==
    UNION {
        {[i \in 1..n |-> [id |-> i, year |-> 2026, month |-> i, num_residents |-> 2,
                           rent |-> r[i], power |-> q[i]]] :
            r \in [1..n -> {ratio(1000, 1), None}], q \in [1..n -> {ratio(50, 1), None}]} :
        n \in 1..MaxRows}
    \cup {outlier_dataset}

InitEstimate ==
    /\ \E k \in 1..Len(est_clock_values) : now = est_clock_values[k]
    /\ ParseIdle
    /\ MoneyIdle
    /\ BuildIdle
    /\ AssembleIdle
    /\ est_arg \in est_args \cup {None}
    /\ est_dt = None
    /\ est_now = None
    /\ est_residents \in {2, 4}
    /\ est_df \in est_datasets
    /\ est_filled = Pending
    /\ estimate = Pending
    /\ est_pc = "start"

\* Time passes between the steps of the script.
ClockAdvance ==
    /\ est_pc \in {"start", "parsed"}
    /\ \E k \in 1..Len(est_clock_values) :
          /\ datetime_lt(now, est_clock_values[k])
          /\ now' = est_clock_values[k]
    /\ UNCHANGED est_vars
    /\ UNCHANGED <<parse_vars, money_vars, build_vars, assemble_vars>>

\* check_month(arg): the argument parsed, ArgumentTypeError when it is no
\* month. A call of estimate_rent without dt has no argument to parse.
CheckMonth ==
    /\ est_pc = "start"
    /\ IF est_arg = None
       THEN /\ est_dt' = None
            /\ est_pc' = "parsed"
       ELSE LET value == parse_month_datetime(est_arg.value, now)
            IN  /\ est_dt' = value
                /\ est_pc' = IF value = None THEN "ArgumentTypeError" ELSE "parsed"
    /\ UNCHANGED <<now, est_arg, est_now, est_residents, est_df, est_filled, estimate>>
    /\ UNCHANGED <<parse_vars, money_vars, build_vars, assemble_vars>>

\* estimate_rent, its first statement: dt = datetime.now() when dt is None,
\* else the assertion.
Validate ==
    /\ est_pc = "parsed"
    /\ est_now' = now
    /\ IF est_dt = None
       THEN /\ est_dt' = now
            /\ est_pc' = "validated"
       ELSE /\ est_pc' = IF assert_passes(est_dt, now) THEN "validated" ELSE "AssertionError"
            /\ UNCHANGED est_dt
    /\ UNCHANGED <<now, est_arg, est_residents, est_df, est_filled, estimate>>
    /\ UNCHANGED <<parse_vars, money_vars, build_vars, assemble_vars>>

\* df = df.fillna(df.mean(numeric_only=True))
Impute ==
    /\ est_pc = "validated"
    /\ est_filled' = fillna(est_df)
    /\ est_pc' = "imputed"
    /\ UNCHANGED <<now, est_arg, est_dt, est_now, est_residents, est_df, estimate>>
    /\ UNCHANGED <<parse_vars, money_vars, build_vars, assemble_vars>>

\* The loop over expenses_cols and estimate.round(2): one model per column;
\* the first fit that raises ends the call.
Fit ==
    /\ est_pc = "imputed"
    /\ LET fits   == [k \in 1..Len(expenses_cols) |->
                        predict(est_filled, expenses_cols[k], est_dt, est_residents)]
           failed == {k \in 1..Len(expenses_cols) : fits[k].tag = "raise"}
       IN  IF failed /= {}
           THEN /\ est_pc' = "ValueError"
                /\ UNCHANGED estimate
           ELSE /\ est_pc' = "returned"
                /\ estimate' = [year  |-> est_dt.year,
                                month |-> est_dt.month,
                                power |-> [tag |-> "round2", of |-> fits[1]],
                                rent  |-> [tag |-> "round2", of |-> fits[2]]]
    /\ UNCHANGED <<now, est_arg, est_dt, est_now, est_residents, est_df, est_filled>>
    /\ UNCHANGED <<parse_vars, money_vars, build_vars, assemble_vars>>

NextEstimate ==
    \/ ClockAdvance
    \/ CheckMonth
    \/ Validate
    \/ Impute
    \/ Fit

SpecEstimate == InitEstimate /\ [][NextEstimate]_vars

\* The period of dt is before the period of the moment `clock`.
period_before(dt, clock) ==
    \/ dt.year < clock.year
    \/ dt.year = clock.year /\ dt.month < clock.month

\* The assertion of estimate_rent has been evaluated for a target.
validated_target ==
    /\ est_arg /= None
    /\ est_now /= None

\* C4: a target before the current period fails the assertion, before any
\* imputation or regression, and no estimate is returned.
C4_PastTargetRejected ==
    (validated_target /\ period_before(est_dt, est_now)) =>
        /\ est_pc = "AssertionError"
        /\ est_filled = Pending
        /\ estimate = Pending

\* C4's case: the target of a past month was rejected.
C4_Witness ==
    /\ validated_target
    /\ period_before(est_dt, est_now)
    /\ est_pc = "AssertionError"
    /\ est_arg.value = <<"O","c","t"," ","2","0","2","6">>

\* C5 as claimed: a target that is not before the current period, the
\* current period itself included, passes the assertion at any moment.
C5_CurrentPeriodAccepted ==
    (validated_target /\ ~period_before(est_dt, est_now)) =>
        est_pc /= "AssertionError"

\* Column col of the dataset has no value in any record.
empty_column(col) ==
    \A i \in 1..Len(est_df) : est_df[i][col] = None

\* The call of estimate_rent has ended, past its assertion.
estimate_ended ==
    est_pc \in {"returned", "ValueError"}

\* C13 as claimed: when a column of the dataset has no value in any record
\* and another has one, estimate_rent returns an estimate that has the
\* columns with values and not the column without.
C13_EmptyColumnOmitted ==
    (/\ estimate_ended
     /\ \E c \in {"power", "rent"} : empty_column(c)
     /\ \E c \in {"power", "rent"} : ~empty_column(c)) =>
        /\ est_pc = "returned"
        /\ \A c \in {"power", "rent"} : (c \in DOMAIN estimate) <=> ~empty_column(c)

\* The rows of the regression input of column col, each the predictors and
\* the value of a record.
regression_input(col) ==
    LET fit == estimate[col].of
    IN  {<<fit.x[j], fit.y[j]>> : j \in DOMAIN fit.y}

\* The value of record i in column col is more than 3 standard deviations
\* from the mean of the column, the column having more than one value.
outlier(col, i) ==
    /\ est_df[i][col] /= None
    /\ Cardinality({k \in 1..Len(est_df) : est_df[k][col] /= None}) > 1
    /\ ~within_3_std(est_df, col, i)

\* C14 as claimed: in the estimate returned, the regression input of each
\* column holds no record whose value is more than 3 standard deviations from
\* the mean of the column, and holds, with its value, every record whose
\* value is within them.
C14_OutliersExcluded ==
    est_pc = "returned" =>
        \A c \in {"power", "rent"} : \A i \in 1..Len(est_df) :
            LET predictors == <<est_df[i].year, est_df[i].month, est_df[i].num_residents>>
            IN  /\ outlier(c, i) =>
                    \A row \in regression_input(c) : row[1] /= predictors
                /\ within_3_std(est_df, c, i) =>
                    <<predictors, est_df[i][c]>> \in regression_input(c)


====
